---- MODULE Spec2Model ----
(***************************************************************************)
(* A model of the weegfx font tools: the BDF line source, property value  *)
(* parser, bitmap decoder and recursive record parser (tools/bdf.py, and   *)
(* its copy in tools/bdfconv.py), the font model (BdfFont) and the two     *)
(* header emitters (tools/fontconv.py, tools/bdfconv.py).                  *)
(*                                                                         *)
(* Python strings are TLA+ strings; a character is a string of length 1.   *)
(* A Python dict is a function, a list a sequence.  A property value       *)
(* element is [int |-> n] or [str |-> s]; an item of a record is           *)
(* [prop |-> <<elements>>] or [bitmap |-> [width, height, bdf_width,       *)
(* data]].  A raised exception is recorded in `err` and ends the run.      *)
(***************************************************************************)
EXTENDS Integers, Sequences, FiniteSets, TLC

VARIABLES
    stream,     \* the input text stream: the sequence of its lines (without "\n")
    pos,        \* index of the next line readline() will return
    pc,         \* position of the program
    line,       \* the local `line` of the running BdfRecord.parse_from frame
    stack,      \* the BdfRecord.parse_from call frames, innermost last
    bmp,        \* the locals of a running BdfBitmap.parse_from
    record,     \* the record returned by the outermost parse_from
    expected,   \* the expected_type argument of the outermost parse_from
    err,        \* the exception raised, "" if none
    tool,       \* the converter that runs: "fontconv" or "bdfconv"
    font,       \* the BdfFont built from the record (fontconv)
    emit,       \* the locals of the running header emitter
    sink,       \* what the emitter has written to its output stream
    stderr      \* the codes of the missing-glyph warnings written to stderr

parser == <<stream, pos, line, stack, bmp, record, expected>>

emitter == <<tool, font, emit, sink, stderr>>

vars == <<stream, pos, pc, line, stack, bmp, record, expected, err,
          tool, font, emit, sink, stderr>>

---------------------------------------------------------------------------
(* Python str primitives *)

\* characters for which str.isspace() holds and that str.strip()/split() remove
Whitespace == {" ", "\t", "\n"}

Digits == {"0", "1", "2", "3", "4", "5", "6", "7", "8", "9"}

DigitVal ==
    "0" :> 0 @@ "1" :> 1 @@ "2" :> 2 @@ "3" :> 3 @@ "4" :> 4 @@
    "5" :> 5 @@ "6" :> 6 @@ "7" :> 7 @@ "8" :> 8 @@ "9" :> 9

HexVal ==
    DigitVal @@
    "A" :> 10 @@ "B" :> 11 @@ "C" :> 12 @@ "D" :> 13 @@ "E" :> 14 @@ "F" :> 15 @@
    "a" :> 10 @@ "b" :> 11 @@ "c" :> 12 @@ "d" :> 13 @@ "e" :> 14 @@ "f" :> 15

HexDigits == DOMAIN HexVal

\* s[i] (1-based)
CharAt(s, i) == SubSeq(s, i, i)

\* s[i:] (1-based i)
From(s, i) == SubSeq(s, i, Len(s))

\* str.startswith
StartsWith(s, prefix) ==
    /\ Len(s) >= Len(prefix)
    /\ SubSeq(s, 1, Len(prefix)) = prefix

\* str.isspace: at least one character, all of them whitespace
IsSpace(s) ==
    /\ Len(s) > 0
    /\ \A i \in 1..Len(s) : CharAt(s, i) \in Whitespace

RECURSIVE LStrip(_)
LStrip(s) ==
    IF Len(s) > 0 /\ CharAt(s, 1) \in Whitespace THEN LStrip(Tail(s)) ELSE s

RECURSIVE RStrip(_)
RStrip(s) ==
    IF Len(s) > 0 /\ CharAt(s, Len(s)) \in Whitespace
    THEN RStrip(SubSeq(s, 1, Len(s) - 1))
    ELSE s

\* str.strip
Strip(s) == RStrip(LStrip(s))

\* length of the longest whitespace-free prefix of s
RECURSIVE TokenLen(_)
TokenLen(s) ==
    IF Len(s) = 0 \/ CharAt(s, 1) \in Whitespace THEN 0
    ELSE 1 + TokenLen(Tail(s))

\* str.split(): the whitespace-separated tokens
RECURSIVE Split(_)
Split(s) ==
    CHOOSE tokens \in
        {IF Len(t) = 0 THEN <<>>
         ELSE <<SubSeq(t, 1, TokenLen(t))>> \o Split(From(t, TokenLen(t) + 1)) :
             t \in {LStrip(s)}} : TRUE

\* str.split(maxsplit=1): the first token, then the rest with its leading
\* whitespace removed (absent when nothing but whitespace follows)
Split1(s) ==
    LET t == LStrip(s)
        n == TokenLen(t)
        rest == LStrip(From(t, n + 1))
    IN  IF Len(t) = 0 THEN <<>>
        ELSE IF Len(rest) = 0 THEN <<SubSeq(t, 1, n)>>
        ELSE <<SubSeq(t, 1, n), rest>>

\* str.replace(old, new): every non-overlapping occurrence, left to right
RECURSIVE Replace(_, _, _)
Replace(s, old, new) ==
    IF Len(s) = 0 THEN s
    ELSE IF StartsWith(s, old) THEN new \o Replace(From(s, Len(old) + 1), old, new)
    ELSE CharAt(s, 1) \o Replace(Tail(s), old, new)

\* ''.join(ch for ch in s if not ch.isspace())
RECURSIVE RemoveSpace(_)
RemoveSpace(s) ==
    IF Len(s) = 0 THEN s
    ELSE IF CharAt(s, 1) \in Whitespace THEN RemoveSpace(Tail(s))
    ELSE CharAt(s, 1) \o RemoveSpace(Tail(s))

\* value of a string of decimal digits
RECURSIVE DecVal(_)
DecVal(s) ==
    IF Len(s) = 0 THEN 0
    ELSE DecVal(SubSeq(s, 1, Len(s) - 1)) * 10 + DigitVal[CharAt(s, Len(s))]

\* length of the longest prefix of decimal digits
RECURSIVE DigitsLen(_)
DigitsLen(s) ==
    IF Len(s) = 0 \/ CharAt(s, 1) \notin Digits THEN 0
    ELSE 1 + DigitsLen(Tail(s))

\* int(s) for a str s: an optional sign, then decimal digits only
IsDecimal(s) ==
    LET body == IF Len(s) > 0 /\ CharAt(s, 1) \in {"+", "-"} THEN From(s, 2) ELSE s
    IN  Len(body) > 0 /\ DigitsLen(body) = Len(body)

StrToInt(s) ==
    IF CharAt(s, 1) = "-" THEN 0 - DecVal(From(s, 2))
    ELSE IF CharAt(s, 1) = "+" THEN DecVal(From(s, 2))
    ELSE DecVal(s)

\* int(chunk, 16) accepts one or two hex digits, or a sign and one hex digit
IsHex(chunk) ==
    \/ Len(chunk) = 1 /\ chunk \in HexDigits
    \/ /\ Len(chunk) = 2
       /\ CharAt(chunk, 2) \in HexDigits
       /\ CharAt(chunk, 1) \in HexDigits \cup {"+", "-"}

HexToInt(chunk) ==
    IF Len(chunk) = 1 THEN HexVal[chunk]
    ELSE IF CharAt(chunk, 1) = "-" THEN 0 - HexVal[CharAt(chunk, 2)]
    ELSE IF CharAt(chunk, 1) = "+" THEN HexVal[CharAt(chunk, 2)]
    ELSE HexVal[CharAt(chunk, 1)] * 16 + HexVal[CharAt(chunk, 2)]

---------------------------------------------------------------------------
(* The inputs *)

\* the longest input of which every sequence of lines is tried
MaxLines == 3

\* the expected_type of the outermost parse_from: FONT in both converters,
\* or none
ExpectedTypes == {"FONT", ""}

\* the character codes the converters are asked for
CodeChoices == {0 - 1, 65, 66, 67, 68, 255, 256, 300}

Lines ==
    {"STARTFONT 2.1", "STARTFONTX 2.1", "STARTCHAR A", "STARTSTART",
     "ENDFONT", "ENDFONTX", "ENDCHAR", "ENDFONT 2.1", "ENDEND",
     "BBX 8 1 0 0", "ENCODING 65", "BITMAP",
     "AB", "ABC", "0102", "G1",
     "COMMENT x", " COMMENT x", "  "}

\* a font of one 8x1 glyph
DocOne ==
    <<"STARTFONT 2.1",
      "FONTBOUNDINGBOX 8 1 0 0",
      "STARTPROPERTIES 2",
      "FAMILY_NAME \"Fixed\"",
      "WEIGHT_NAME \"Medium\"",
      "ENDPROPERTIES",
      "STARTCHAR A",
      "ENCODING 65",
      "BBX 8 1 0 0",
      "BITMAP",
      "AB",
      "ENDCHAR",
      "ENDFONT">>

\* a font of four glyphs: one fits the font's box, one differs in its
\* origin, one in its width, one in its height
DocMono ==
    <<"STARTFONT 2.1",
      "FONT -misc-fixed",
      "FONTBOUNDINGBOX 8 1 0 0",
      "STARTPROPERTIES 3",
      "FAMILY_NAME \"Fixed\"",
      "WEIGHT_NAME \"Medium\"",
      "COPYRIGHT \"Public domain\"",
      "ENDPROPERTIES",
      "CHARS 4",
      "STARTCHAR A", "ENCODING 65", "BBX 8 1 0 0", "BITMAP", "00", "ENDCHAR",
      "STARTCHAR B", "ENCODING 66", "BBX 8 1 1 -1", "BITMAP", "7E", "ENDCHAR",
      "STARTCHAR D", "ENCODING 68", "BBX 8 2 0 0", "BITMAP", "01", "02", "ENDCHAR",
      "STARTCHAR C", "ENCODING 67", "BBX 16 1 0 0", "BITMAP", "0102", "ENDCHAR",
      "ENDFONT">>

\* a font of one 112x2 glyph, 14 bytes a row
DocWide ==
    <<"STARTFONT 2.1",
      "FONTBOUNDINGBOX 112 2 0 0",
      "STARTPROPERTIES 2",
      "FAMILY_NAME \"Wide\"",
      "WEIGHT_NAME \"Bold\"",
      "ENDPROPERTIES",
      "STARTCHAR A",
      "ENCODING 66",
      "BBX 112 2 0 0",
      "BITMAP",
      "0102030405060708090A0B0C0D0E",
      "F1F2F3F4F5F6F7 F8F9FAFBFCFDFE",
      "ENDCHAR",
      "ENDFONT">>

\* a font whose glyphs are 5 pixels wide, with two glyphs of the same code
DocNarrow ==
    <<"STARTFONT 2.1",
      "FONTBOUNDINGBOX 5 2 0 0",
      "STARTPROPERTIES 2",
      "FAMILY_NAME \"Tiny\"",
      "WEIGHT_NAME \"Medium\"",
      "ENDPROPERTIES",
      "STARTCHAR A",
      "ENCODING 65",
      "BBX 5 2 0 0",
      "BITMAP",
      "F8",
      "08",
      "ENDCHAR",
      "STARTCHAR A2",
      "ENCODING 65",
      "BBX 5 2 0 0",
      "BITMAP",
      "A8 50",
      "ENDCHAR",
      "ENDFONT">>

\* a record whose child repeats a key of its parent, and then holds two
\* BITMAP blocks
DocRepeat ==
    <<"STARTFONT 2.1",
      "BBX 8 1 0 0",
      "STARTCHAR A",
      "BBX 8 1 0 0",
      "BITMAP",
      "AB",
      "BITMAP",
      "CD",
      "ENDCHAR",
      "ENDFONT">>

\* a font of two 8x1 glyphs, the second without a pixel set
DocBlank ==
    <<"STARTFONT 2.1",
      "FONTBOUNDINGBOX 8 1 0 0",
      "STARTPROPERTIES 2",
      "FAMILY_NAME \"Tiny\"",
      "WEIGHT_NAME \"Medium\"",
      "ENDPROPERTIES",
      "STARTCHAR A",
      "ENCODING 65",
      "BBX 8 1 0 0",
      "BITMAP",
      "AB",
      "ENDCHAR",
      "STARTCHAR B",
      "ENCODING 66",
      "BBX 8 1 0 0",
      "BITMAP",
      "00",
      "ENDCHAR",
      "ENDFONT">>

Docs == {DocOne, DocMono, DocWide, DocNarrow, DocRepeat, DocBlank}

\* every sequence of at most n lines
RECURSIVE SeqsUpTo(_)
SeqsUpTo(n) ==
    IF n = 0 THEN {<<>>}
    ELSE LET shorter == SeqsUpTo(n - 1)
         IN  shorter \cup {Append(s, l) : s \in {t \in shorter : Len(t) = n - 1}, l \in Lines}

\* a document with one line replaced, inserted or removed, or cut short
Perturbed(doc) ==
    {[doc EXCEPT ![i] = l] : i \in 1..Len(doc), l \in Lines}
    \cup {SubSeq(doc, 1, i) \o <<l>> \o SubSeq(doc, i + 1, Len(doc)) :
              i \in 0..Len(doc), l \in Lines}
    \cup {SubSeq(doc, 1, i - 1) \o SubSeq(doc, i + 1, Len(doc)) : i \in 1..Len(doc)}
    \cup {SubSeq(doc, 1, i) : i \in 0..Len(doc)}

\* the value texts of the property lines tried: integers, signed or not,
\* quoted strings, bare tokens and mixtures of them
ValueTexts ==
    {"8", "-8", "007", "8 -1 0", "+5", "-", "12abc", "1.5", "x8", "a b",
     "\"a b\"", "\"12\"", "\"\" 7", "\"abc", "x\"y\"", "8\"q\"9",
     "8 \"x y\" z 9", "\"a\"  \"b\"", "-3-4"}

\* a record of one property line for each value text
PropertyDocs == {<<"STARTFONT 2.1", "KEY " \o v, "ENDFONT">> : v \in ValueTexts}

Streams == SeqsUpTo(MaxLines) \cup Perturbed(DocOne) \cup Docs \cup PropertyDocs

---------------------------------------------------------------------------
(* font.py / bdf.py: row width, line source *)

\* the width in bits of a bitmap row: the pixel width rounded up to a byte
row_width(width) == (0 - ((0 - width) \div 8)) * 8

\* stream.readline(): the line with its newline, '' at end of stream
readline(st, p) == IF p <= Len(st) THEN st[p] \o "\n" ELSE ""

AfterRead(st, p) == IF p <= Len(st) THEN p + 1 ELSE p

\* the next line that is neither whitespace nor starts with COMMENT, stripped
RECURSIVE nextline(_, _)
nextline(st, p) ==
    LET l == readline(st, p)
    IN  IF IsSpace(l) \/ StartsWith(l, "COMMENT")
        THEN nextline(st, AfterRead(st, p))
        ELSE [line |-> Strip(l), pos |-> AfterRead(st, p)]

---------------------------------------------------------------------------
(* bdf.py: BdfProperty *)

\* length of the match of -?\d+ at the start of s, 0 if none
IntLen(s) ==
    IF Len(s) > 0 /\ CharAt(s, 1) = "-"
    THEN (IF DigitsLen(From(s, 2)) > 0 THEN 1 + DigitsLen(From(s, 2)) ELSE 0)
    ELSE DigitsLen(s)

\* length of the longest prefix of s without a double quote
RECURSIVE UnquotedLen(_)
UnquotedLen(s) ==
    IF Len(s) = 0 \/ CharAt(s, 1) = "\"" THEN 0
    ELSE 1 + UnquotedLen(Tail(s))

\* length of the match of "[^"]*" at the start of s, 0 if none
QuotedLen(s) ==
    IF Len(s) > 0 /\ CharAt(s, 1) = "\"" /\ UnquotedLen(From(s, 2)) < Len(s) - 1
    THEN UnquotedLen(From(s, 2)) + 2
    ELSE 0

\* _parse_value without int(integer): an integer token is kept as its text
RECURSIVE _parse_value_untyped(_)
_parse_value_untyped(value_str) ==
    CHOOSE values \in
        {IF Len(value_str) = 0 THEN <<>>
         ELSE IF Len(t) = 0
         THEN <<[str |-> CharAt(value_str, Len(value_str))]>>
         ELSE IF IntLen(t) > 0
         THEN <<[str |-> SubSeq(t, 1, IntLen(t))]>>
              \o _parse_value_untyped(From(t, IntLen(t) + 1))
         ELSE IF QuotedLen(t) > 0
         THEN <<[str |-> SubSeq(t, 2, QuotedLen(t) - 1)]>>
              \o _parse_value_untyped(From(t, QuotedLen(t) + 1))
         ELSE <<[str |-> t]>> : t \in {LStrip(value_str)}} : TRUE

\* VALUE_RE.finditer over value_str: at each position \s*, then an int, else
\* a quoted string, else the rest of the text
RECURSIVE _parse_value(_)
_parse_value(value_str) ==
    CHOOSE values \in
        {IF Len(value_str) = 0 THEN <<>>
         ELSE IF Len(t) = 0
         THEN \* \s* gives one character back and .+ takes it
              <<[str |-> CharAt(value_str, Len(value_str))]>>
         ELSE IF IntLen(t) > 0
         THEN <<[int |-> StrToInt(SubSeq(t, 1, IntLen(t)))]>>
              \o _parse_value(From(t, IntLen(t) + 1))
         ELSE IF QuotedLen(t) > 0
         THEN <<[str |-> SubSeq(t, 2, QuotedLen(t) - 1)]>>
              \o _parse_value(From(t, QuotedLen(t) + 1))
         ELSE <<[str |-> t]>> : t \in {LStrip(value_str)}} : TRUE

BdfProperty(values_str) == [prop |-> _parse_value(values_str)]

---------------------------------------------------------------------------
(* bdf.py: BdfBitmap, BdfRecord *)

\* int(v) of a property value element
CanInt(v) == "int" \in DOMAIN v \/ IsDecimal(Strip(v.str))

ToInt(v) == IF "int" \in DOMAIN v THEN v.int ELSE StrToInt(Strip(v.str))

\* BdfBitmap.__init__
BdfBitmapInit(width, height) ==
    [width |-> width, bdf_width |-> row_width(width), height |-> height, data |-> <<>>]

\* the two-character slices line_hex[col:col+2], col = 0, 2, ...
RECURSIVE Chunks(_)
Chunks(line_hex) ==
    IF Len(line_hex) = 0 THEN <<>>
    ELSE IF Len(line_hex) = 1 THEN <<line_hex>>
    ELSE <<SubSeq(line_hex, 1, 2)>> \o Chunks(Tail(Tail(line_hex)))

\* BdfRecord.__init__ with the locals of the parse_from call that builds it
NewFrame(first_line) ==
    LET toks == Split(first_line)
    IN  [tag |-> toks[1],
         type |-> From(toks[1], Len("START") + 1),
         args |-> Tail(toks),
         items |-> <<>>,
         children |-> <<>>]

RecordOf(frame) ==
    [type |-> frame.type, args |-> frame.args,
     items |-> frame.items, children |-> frame.children]

\* add_record_item without its check: a repeated key takes the new value
add_record_item_overwrite(items, key, item) ==
    [ok |-> TRUE, items |-> (key :> item) @@ items]

\* add_record_item: a repeated key is an error, a new key is stored
add_record_item(items, key, item) ==
    IF key \in DOMAIN items
    THEN [ok |-> FALSE, items |-> items]
    ELSE [ok |-> TRUE, items |-> (key :> item) @@ items]

Top == stack[Len(stack)]

SetTop(frame) == [stack EXCEPT ![Len(stack)] = frame]

Raise(e) ==
    /\ pc' = "error"
    /\ err' = e
    /\ UNCHANGED <<parser, emitter>>

\* the `line = nextline(stream)` that ends an iteration of the record loop
Advance ==
    LET n == nextline(stream, pos)
    IN  /\ line' = n.line
        /\ pos' = n.pos

---------------------------------------------------------------------------
(* BdfRecord.parse_from and BdfBitmap.parse_from, one action per step *)

\* the outermost call, parse_from(stream, expected_type): the opening line is
\* fetched and checked, the record is created, the first body line is fetched
ParseFrom ==
    /\ pc = "start"
    /\ \E first \in {nextline(stream, pos)} :
       \E n \in {nextline(stream, first.pos)} :
       LET expected_start_tag == IF expected # "" THEN "START" \o expected ELSE ""
       IN  IF ~StartsWith(first.line, expected_start_tag)
           THEN Raise("SyntaxError: Expected start tag")
           ELSE IF Split(first.line) = <<>>
           THEN Raise("ValueError: not enough values to unpack")
           ELSE /\ stack' = <<NewFrame(first.line)>>
                /\ line' = n.line
                /\ pos' = n.pos
                /\ pc' = "loop"
                /\ UNCHANGED <<stream, bmp, record, expected, err, emitter>>

InLoop ==
    /\ pc = "loop"
    /\ line # ""
    /\ ~StartsWith(line, "END")

\* a body line that starts with START: the nested call
\* parse_from(stream, first_line=line) creates the child and fetches its
\* first body line
ParseChild ==
    /\ InLoop
    /\ StartsWith(line, "START")
    /\ stack' = Append(stack, NewFrame(line))
    /\ Advance
    /\ UNCHANGED <<stream, pc, bmp, record, expected, err, emitter>>

\* a body line that starts with BITMAP: the BBX item gives the size, and
\* BdfBitmap.parse_from runs up to its decoding loop
ParseBitmap ==
    /\ InLoop
    /\ ~StartsWith(line, "START")
    /\ StartsWith(line, "BITMAP")
    /\ IF "BBX" \notin DOMAIN Top.items
       THEN Raise("SyntaxError: Expected character BBX before BITMAP")
       ELSE LET bbx == Top.items["BBX"].prop
            IN  IF Len(bbx) < 2
                THEN Raise("ValueError: not enough values to unpack")
                ELSE IF ~CanInt(bbx[1]) \/ ~CanInt(bbx[2])
                THEN Raise("ValueError: invalid literal for int()")
                ELSE LET bitmap == BdfBitmapInit(ToInt(bbx[1]), ToInt(bbx[2]))
                     IN  /\ bmp' = [bitmap |-> bitmap,
                                    bits_read |-> 0,
                                    bits_to_read |-> bitmap.bdf_width * bitmap.height]
                         /\ pc' = "bitmap"
                         /\ UNCHANGED <<stream, pos, line, stack, record, expected, err, emitter>>

\* the bytes of the leading chunks of a row that int(chunk, 16) accepts
RECURSIVE RowBytes(_)
RowBytes(chunks) ==
    IF chunks = <<>> \/ ~IsHex(Head(chunks)) THEN <<>>
    ELSE <<HexToInt(Head(chunks))>> \o RowBytes(Tail(chunks))

\* one iteration of the decoding loop: a line is fetched, its whitespace
\* removed, and every two-character slice of it appended as a byte
BitmapRow ==
    /\ pc = "bitmap"
    /\ bmp.bits_read < bmp.bits_to_read
    /\ \E n \in {nextline(stream, pos)} :
       \E chunks \in {Chunks(RemoveSpace(n.line))} :
       \E bytes \in {RowBytes(chunks)} :
           IF Len(bytes) < Len(chunks)
           THEN Raise("ValueError: invalid literal for int() with base 16")
           ELSE /\ bmp' = [bmp EXCEPT !.bitmap.data = @ \o bytes,
                                      !.bits_read = @ + 8 * Len(bytes)]
                /\ pos' = n.pos
                /\ UNCHANGED <<stream, pc, line, stack, record, expected, err, emitter>>

\* the decoding loop ends: the bitmap is returned and stored under BITMAP,
\* and the next body line is fetched
BitmapReturn ==
    /\ pc = "bitmap"
    /\ bmp.bits_read >= bmp.bits_to_read
    /\ LET added == add_record_item(Top.items, "BITMAP", [bitmap |-> bmp.bitmap])
       IN  IF ~added.ok
           THEN Raise("SyntaxError: Repeated")
           ELSE /\ stack' = SetTop([Top EXCEPT !.items = added.items])
                /\ Advance
                /\ pc' = "loop"
                /\ bmp' = <<>>
                /\ UNCHANGED <<stream, record, expected, err, emitter>>

\* any other body line is KEY VALUE...: the value is parsed and stored
ParseProperty ==
    /\ InLoop
    /\ ~StartsWith(line, "START")
    /\ ~StartsWith(line, "BITMAP")
    /\ \E kv \in {Split1(line)} :
           IF Len(kv) < 2
           THEN Raise("ValueError: not enough values to unpack")
           ELSE \E added \in {add_record_item(Top.items, kv[1], BdfProperty(kv[2]))} :
                    IF ~added.ok
                    THEN Raise("SyntaxError: Repeated")
                    ELSE /\ stack' = SetTop([Top EXCEPT !.items = added.items])
                         /\ Advance
                         /\ UNCHANGED <<stream, pc, bmp, record, expected, err, emitter>>

expected_end_tag(this_start_tag) == Replace(this_start_tag, "START", "END")

\* the body loop ends on an empty line (end of stream) or a line that starts
\* with END: the line is compared with the expected end tag and the record
\* returned, to the parent's children or to the outermost caller
EndRecord ==
    /\ pc = "loop"
    /\ (line = "" \/ StartsWith(line, "END"))
    /\ IF line # expected_end_tag(Top.tag)
       THEN Raise("SyntaxError: Expected end tag")
       ELSE IF Len(stack) = 1
       THEN /\ record' = RecordOf(Top)
            /\ stack' = <<>>
            /\ pc' = "parsed"
            /\ UNCHANGED <<stream, pos, line, bmp, expected, err, emitter>>
       ELSE LET parent == stack[Len(stack) - 1]
                rest == SubSeq(stack, 1, Len(stack) - 2)
            IN  /\ stack' = Append(rest,
                        [parent EXCEPT !.children = Append(@, RecordOf(Top))])
                /\ Advance
                /\ UNCHANGED <<stream, pc, bmp, record, expected, err, emitter>>

---------------------------------------------------------------------------
(* bdf.py: BdfFont *)

None == [none |-> TRUE]

IsInt(v) == "int" \in DOMAIN v

IsStr(v) == "str" \in DOMAIN v

\* getval(record, key, default): the first element of the item, or the default
getval(rec, key, default) ==
    IF key \in DOMAIN rec.items THEN rec.items[key].prop[1] ELSE default

\* the indices of the children of kind CHAR
CharChildren(rec) ==
    {i \in 1..Len(rec.children) : rec.children[i].type = "CHAR"}

\* the lookup table where the first of the children with the same encoding
\* stays
CharTable_first_wins(rec) ==
    LET code(i) == rec.children[i].items["ENCODING"].prop[1]
        codes == {code(i) : i \in CharChildren(rec)}
        first(c) == CHOOSE i \in CharChildren(rec) :
                        /\ code(i) = c
                        /\ \A j \in CharChildren(rec) : code(j) = c => i <= j
    IN  [c \in codes |-> rec.children[first(c)]]

\* the lookup table {child.items['ENCODING'][0]: child}: of the children
\* with the same encoding the last one stays
CharTable(rec) ==
    LET code(i) == rec.children[i].items["ENCODING"].prop[1]
        codes == {code(i) : i \in CharChildren(rec)}
        last(c) == CHOOSE i \in CharChildren(rec) :
                       /\ code(i) = c
                       /\ \A j \in CharChildren(rec) : code(j) = c => j <= i
    IN  [c \in codes |-> rec.children[last(c)]]

\* the exception BdfFont.__init__ raises for a record, "" if none
BdfFontError(rec) ==
    IF rec.type # "FONT"
    THEN "ValueError: Expected a FONT record in BDF"
    ELSE IF Len(rec.children) < 1 \/ rec.children[1].type # "PROPERTIES"
    THEN "ValueError: Expected a PROPERTIES record in BDF"
    ELSE IF "FONTBOUNDINGBOX" \notin DOMAIN rec.items
    THEN "KeyError: FONTBOUNDINGBOX"
    ELSE IF Len(rec.items["FONTBOUNDINGBOX"].prop) # 4
    THEN "TypeError: BBox expected 4 arguments"
    ELSE IF \E i \in CharChildren(rec) : "ENCODING" \notin DOMAIN rec.children[i].items
    THEN "KeyError: ENCODING"
    ELSE ""

\* BdfFont.__init__
BdfFont(rec) ==
    LET box == rec.items["FONTBOUNDINGBOX"].prop
        properties == rec.children[1]
    IN  [bbox |-> [w |-> box[1], h |-> box[2], ox |-> box[3], oy |-> box[4]],
         family |-> getval(properties, "FAMILY_NAME", None),
         weight |-> getval(properties, "WEIGHT_NAME", None),
         logical_name |-> getval(rec, "FONT", None),
         copyright |-> getval(properties, "COPYRIGHT", None),
         chars |-> CharTable(rec)]

\* render_char comparing the width only
render_char_width_only(f, code) ==
    IF [int |-> code] \notin DOMAIN f.chars THEN None
    ELSE LET char_record == f.chars[[int |-> code]]
         IN  IF "BBX" \notin DOMAIN char_record.items
             THEN [error |-> "KeyError: BBX"]
             ELSE IF char_record.items["BBX"].prop[1] # f.bbox.w
             THEN [error |-> "ValueError: wrong BBX"]
             ELSE IF "BITMAP" \notin DOMAIN char_record.items
             THEN [error |-> "KeyError: BITMAP"]
             ELSE [data |-> char_record.items["BITMAP"].bitmap.data]

\* BdfFont.render_char: None, an exception, or the bitmap's bytes
render_char(f, code) ==
    IF [int |-> code] \notin DOMAIN f.chars THEN None
    ELSE LET char_record == f.chars[[int |-> code]]
         IN  IF "BBX" \notin DOMAIN char_record.items
             THEN [error |-> "KeyError: BBX"]
             ELSE LET char_bbox == char_record.items["BBX"].prop
                  IN  IF char_bbox[1] # f.bbox.w
                      THEN [error |-> "ValueError: wrong BBX"]
                      ELSE IF Len(char_bbox) < 2
                      THEN [error |-> "IndexError"]
                      ELSE IF char_bbox[2] # f.bbox.h
                      THEN [error |-> "ValueError: wrong BBX"]
                      ELSE IF "BITMAP" \notin DOMAIN char_record.items
                      THEN [error |-> "KeyError: BITMAP"]
                      ELSE [data |-> char_record.items["BITMAP"].bitmap.data]

\* fontconv: font = bdf.BdfFont(record)
MakeFont ==
    /\ pc = "parsed"
    /\ IF BdfFontError(record) # ""
       THEN /\ pc' = "error"
            /\ err' = BdfFontError(record)
            /\ tool' = "fontconv"
            /\ UNCHANGED <<parser, font, emit, sink, stderr>>
       ELSE /\ font' = BdfFont(record)
            /\ tool' = "fontconv"
            /\ pc' = "font"
            /\ UNCHANGED <<parser, err, emit, sink, stderr>>

---------------------------------------------------------------------------
(* fontconv.py: emit_mono_font_header *)

MAX_H_COL == 80

\* len(hexbyte(byte) + ', '): "0x", two hex digits, a comma and a space
ByteStrLen == 6

\* len('    '), the indentation of a line of bytes
IndentLen == 4

\* [0x00] * n
Zeros(n) == [i \in 1..n |-> 0]

\* s * n for a str s
RECURSIVE Repeat(_, _)
Repeat(s, n) == IF n <= 0 THEN "" ELSE s \o Repeat(s, n - 1)

\* the range check of both emitters
InvalidRange(first_ch, last_ch) ==
    LET swapped == IF first_ch > last_ch
                   THEN [first_ch |-> first_ch, last_ch |-> last_ch]
                   ELSE [first_ch |-> first_ch, last_ch |-> last_ch]
    IN  \/ ~(0 <= swapped.first_ch /\ swapped.first_ch <= 255)
        \/ ~(0 <= swapped.last_ch /\ swapped.last_ch <= 255)

\* the byte loop of emit_mono_font_header over n bytes: the number of bytes
\* it puts on each output line
RECURSIVE WrapRows(_, _, _)
WrapRows(n, h_col, rows) ==
    IF n = 0 THEN rows
    ELSE IF h_col + ByteStrLen >= MAX_H_COL
    THEN WrapRows(n - 1, 0, Append(rows, 1))
    ELSE WrapRows(n - 1, h_col + ByteStrLen,
                  CHOOSE r \in {[v EXCEPT ![Len(v)] = @ + 1] : v \in {rows}} : TRUE)

\* the length of an output line that holds n bytes
RowLen(n) == IndentLen + n * ByteStrLen

EmptySink == [header |-> FALSE, size |-> None, glyphs |-> <<>>, footer |-> FALSE]

\* the arguments of a call of an emitter
Args(first_ch, last_ch) == [first_ch |-> first_ch, last_ch |-> last_ch]

\* an emitter is left by an exception, with what it has written so far
Abort(e, args, written) ==
    /\ pc' = "error"
    /\ err' = e
    /\ emit' = args
    /\ sink' = written
    /\ UNCHANGED <<parser, tool, font, stderr>>

\* emit_mono_font_header up to its glyph loop: the range check, the names,
\* the array size, the opening of the header
EmitFontStart ==
    /\ pc = "font"
    /\ \E first_ch \in CodeChoices, last_ch \in CodeChoices :
        IF InvalidRange(first_ch, last_ch)
        THEN Abort("ValueError: Invalid character range", Args(first_ch, last_ch), sink)
        ELSE IF ~IsStr(font.family) \/ ~IsStr(font.weight)
        THEN Abort("AttributeError: upper", Args(first_ch, last_ch), sink)
        ELSE IF ~IsInt(font.bbox.w)
        THEN Abort("TypeError: bad operand type for unary -", Args(first_ch, last_ch), sink)
        ELSE LET per_row == row_width(font.bbox.w.int) \div 8
                 count == last_ch - first_ch + 1
             IN  IF ~IsInt(font.bbox.h)
                 THEN Abort("TypeError: can't multiply sequence by non-int",
                            Args(first_ch, last_ch),
                            [sink EXCEPT
                               !.header = TRUE,
                               !.size = [str |-> Repeat(Repeat(font.bbox.h.str, per_row), count)]])
                 ELSE /\ sink' = [sink EXCEPT
                                    !.header = TRUE,
                                    !.size = [int |-> per_row * font.bbox.h.int * count]]
                      /\ emit' = [first_ch |-> first_ch, last_ch |-> last_ch, ich |-> first_ch,
                                  empty_char_bitmap |-> Zeros(per_row * font.bbox.h.int)]
                      /\ pc' = "emit"
                      /\ UNCHANGED <<parser, err, tool, font, stderr>>

\* one iteration of the glyph loop: the glyph is rendered, a missing one is
\* warned about and zero-filled, the comment and the bytes are written
EmitFontGlyph ==
    /\ pc = "emit"
    /\ emit.ich <= emit.last_ch
    /\ LET rendered == render_char(font, emit.ich)
       IN  IF "error" \in DOMAIN rendered
           THEN Raise(rendered.error)
           ELSE LET absent == rendered = None \/ rendered.data = <<>>
                    char_bitmap == IF absent THEN emit.empty_char_bitmap ELSE rendered.data
                IN  /\ stderr' = IF absent THEN Append(stderr, emit.ich) ELSE stderr
                    /\ sink' = [sink EXCEPT !.glyphs = Append(@,
                                   [code |-> emit.ich,
                                    marked |-> char_bitmap = emit.empty_char_bitmap,
                                    bytes |-> char_bitmap,
                                    rows |-> WrapRows(Len(char_bitmap), MAX_H_COL, <<>>)])]
                    /\ emit' = [emit EXCEPT !.ich = @ + 1]
                    /\ UNCHANGED <<parser, pc, err, tool, font>>

\* the glyph loop is over: the array is closed and the metadata record written
EmitFontEnd ==
    /\ pc = "emit"
    /\ emit.ich > emit.last_ch
    /\ sink' = [sink EXCEPT !.footer = TRUE]
    /\ pc' = "done"
    /\ UNCHANGED <<parser, err, tool, font, emit, stderr>>

---------------------------------------------------------------------------
(* bdfconv.py: emit_mono_bdf_header *)

\* the exception emit_mono_bdf_header raises before it writes anything, "" if none
BdfHeaderError(bdf, first_ch, last_ch) ==
    IF bdf.type # "FONT"
    THEN "ValueError: Expected a FONT record in BDF"
    ELSE IF InvalidRange(first_ch, last_ch)
    THEN "ValueError: Invalid character range"
    ELSE IF Len(bdf.children) < 1 \/ bdf.children[1].type # "PROPERTIES"
    THEN "ValueError: Expected a PROPERTIES record in BDF"
    ELSE IF "FONTBOUNDINGBOX" \notin DOMAIN bdf.items
    THEN "KeyError: FONTBOUNDINGBOX"
    ELSE IF Len(bdf.items["FONTBOUNDINGBOX"].prop) # 4
    THEN "ValueError: not enough values to unpack"
    ELSE IF \/ ~IsStr(getval(bdf.children[1], "FAMILY_NAME", [str |-> "<unknown family>"]))
            \/ ~IsStr(getval(bdf.children[1], "WEIGHT_NAME", [str |-> ""]))
    THEN "AttributeError: upper"
    ELSE ""

\* the exception it raises between the opening of the header and the glyph
\* loop, "" if none
BdfTableError(bdf) ==
    LET bbox == bdf.items["FONTBOUNDINGBOX"].prop
    IN  IF \E i \in CharChildren(bdf) : "ENCODING" \notin DOMAIN bdf.children[i].items
        THEN "KeyError: ENCODING"
        ELSE IF ~IsInt(bbox[1])
        THEN "TypeError: bad operand type for unary -"
        ELSE IF ~IsInt(bbox[2])
        THEN "TypeError: can't multiply sequence by non-int"
        ELSE ""

\* emit_mono_bdf_header up to its glyph loop
EmitBdfStart ==
    /\ pc = "parsed"
    /\ tool' = "bdfconv"
    /\ \E first_ch \in CodeChoices, last_ch \in CodeChoices :
        IF BdfHeaderError(record, first_ch, last_ch) # ""
        THEN /\ pc' = "error"
             /\ err' = BdfHeaderError(record, first_ch, last_ch)
             /\ emit' = Args(first_ch, last_ch)
             /\ UNCHANGED <<parser, font, sink, stderr>>
        ELSE IF BdfTableError(record) # ""
        THEN /\ pc' = "error"
             /\ err' = BdfTableError(record)
             /\ emit' = Args(first_ch, last_ch)
             /\ sink' = [sink EXCEPT !.header = TRUE]
             /\ UNCHANGED <<parser, font, stderr>>
        ELSE LET bbox == record.items["FONTBOUNDINGBOX"].prop
                 bytes_per_row == row_width(bbox[1].int) \div 8
             IN  /\ sink' = [sink EXCEPT !.header = TRUE]
                 /\ emit' = [first_ch |-> first_ch, last_ch |-> last_ch, ich |-> first_ch,
                             font_w |-> bbox[1], font_h |-> bbox[2],
                             font_chars |-> CharTable(record),
                             empty_char_bitmap |-> Zeros(bbox[2].int * bytes_per_row)]
                 /\ pc' = "bdfemit"
                 /\ UNCHANGED <<parser, err, font, stderr>>

\* what one iteration of the glyph loop of emit_mono_bdf_header looks up: an
\* exception, the glyph's BdfBitmap, or nothing
BdfLookup(ich) ==
    IF [int |-> ich] \notin DOMAIN emit.font_chars THEN None
    ELSE LET char_record == emit.font_chars[[int |-> ich]]
         IN  IF "BBX" \notin DOMAIN char_record.items
             THEN [error |-> "KeyError: BBX"]
             ELSE LET char_bbox == char_record.items["BBX"].prop
                  IN  IF char_bbox[1] # emit.font_w
                      THEN [error |-> "ValueError: wrong BBX"]
                      ELSE IF Len(char_bbox) < 2
                      THEN [error |-> "IndexError"]
                      ELSE IF char_bbox[2] # emit.font_h
                      THEN [error |-> "ValueError: wrong BBX"]
                      ELSE IF "BITMAP" \notin DOMAIN char_record.items
                      THEN [error |-> "KeyError: BITMAP"]
                      ELSE [bitmap |-> char_record.items["BITMAP"].bitmap]

\* one iteration of the glyph loop: for a missing glyph the warning and the
\* comment are written and char_bitmap is the zero list, which has no .data
EmitBdfGlyph ==
    /\ pc = "bdfemit"
    /\ emit.ich <= emit.last_ch
    /\ LET found == BdfLookup(emit.ich)
       IN  IF "error" \in DOMAIN found
           THEN Raise(found.error)
           ELSE IF found = None
           THEN /\ stderr' = Append(stderr, emit.ich)
                /\ sink' = [sink EXCEPT !.glyphs = Append(@,
                               [code |-> emit.ich, marked |-> TRUE,
                                bytes |-> <<>>, rows |-> <<>>])]
                /\ pc' = "error"
                /\ err' = "AttributeError: 'list' object has no attribute 'data'"
                /\ UNCHANGED <<parser, tool, font, emit>>
           ELSE /\ sink' = [sink EXCEPT !.glyphs = Append(@,
                               [code |-> emit.ich, marked |-> FALSE,
                                bytes |-> found.bitmap.data,
                                rows |-> IF found.bitmap.data = <<>> THEN <<>>
                                         ELSE <<Len(found.bitmap.data)>>])]
                /\ emit' = [emit EXCEPT !.ich = @ + 1]
                /\ UNCHANGED <<parser, pc, err, tool, font, stderr>>

\* the glyph loop is over: the array is closed and the metadata record written
EmitBdfEnd ==
    /\ pc = "bdfemit"
    /\ emit.ich > emit.last_ch
    /\ sink' = [sink EXCEPT !.footer = TRUE]
    /\ pc' = "done"
    /\ UNCHANGED <<parser, err, tool, font, emit, stderr>>

---------------------------------------------------------------------------
(* The converters: parse the FONT record, build the font, emit the header *)

Init ==
    /\ stream \in Streams
    /\ expected \in ExpectedTypes
    /\ pos = 1
    /\ pc = "start"
    /\ line = ""
    /\ stack = <<>>
    /\ bmp = <<>>
    /\ record = None
    /\ err = ""
    /\ tool = ""
    /\ font = None
    /\ emit = <<>>
    /\ sink = EmptySink
    /\ stderr = <<>>

Next ==
    \/ ParseFrom
    \/ ParseChild
    \/ ParseBitmap
    \/ BitmapRow
    \/ BitmapReturn
    \/ ParseProperty
    \/ EndRecord
    \/ MakeFont
    \/ EmitFontStart
    \/ EmitFontGlyph
    \/ EmitFontEnd
    \/ EmitBdfStart
    \/ EmitBdfGlyph
    \/ EmitBdfEnd

Spec == Init /\ [][Next]_vars

\* the interpreter runs the program on: a step that can change the state is
\* taken
\* the documents, and DocOne with a line changed or cut short anywhere, also
\* inside its BITMAP block
FairInit == Init /\ stream \in Perturbed(DocOne) \cup Docs

FairSpec == FairInit /\ [][Next]_vars /\ WF_vars(Next)

---------------------------------------------------------------------------
(* Properties *)

\* an emitter has been called with arguments emit.first_ch and emit.last_ch,
\* on a FONT record that has its PROPERTIES, bounding box, family and weight
EmitterCalled ==
    /\ tool # ""
    /\ "first_ch" \in DOMAIN emit
    /\ BdfFontError(record) = ""
    /\ IsStr(getval(record.children[1], "FAMILY_NAME", None))
    /\ IsStr(getval(record.children[1], "WEIGHT_NAME", None))

ValidRange ==
    /\ 0 <= emit.first_ch
    /\ emit.first_ch <= emit.last_ch
    /\ emit.last_ch <= 255

\* C1: an emitter called with a range that does not satisfy
\* 0 <= first_code <= last_code <= 255 fails with the invalid-character-range
\* error and has written nothing to the sink.
C1_InvalidRangeRejected ==
    (EmitterCalled /\ ~ValidRange) =>
        /\ pc = "error"
        /\ err = "ValueError: Invalid character range"
        /\ sink = EmptySink

\* the bitmaps stored in the records under construction
StoredBitmaps ==
    {stack[i].items["BITMAP"].bitmap :
        i \in {j \in 1..Len(stack) : "BITMAP" \in DOMAIN stack[j].items}}

\* C2: a bitmap returned by BdfBitmap.parse_from for a width w >= 0 and a
\* height h >= 0 holds exactly ((w + 7) // 8) * h bytes.
C2_BitmapLengthExact ==
    \A b \in StoredBitmaps :
        (b.width >= 0 /\ b.height >= 0) =>
            Len(b.data) = ((b.width + 7) \div 8) * b.height

\* a parse_from frame returns its record
Returns == Len(stack') < Len(stack)

\* C3: in the converters' parse, a record is returned only when the line that
\* ended its body is END<kind> for the kind of its own START<kind> tag.
C3_EndTagOfOwnKind ==
    [][(expected = "FONT" /\ Returns) =>
          /\ Top.tag = "START" \o Top.type
          /\ line = "END" \o Top.type]_vars

\* the line at hand is a property line whose key the record already holds
RepeatedProperty ==
    /\ InLoop
    /\ ~StartsWith(line, "START")
    /\ ~StartsWith(line, "BITMAP")
    /\ Len(Split1(line)) = 2
    /\ Split1(line)[1] \in DOMAIN Top.items

\* a second BITMAP block of the record has been decoded
RepeatedBitmap ==
    /\ pc = "bitmap"
    /\ bmp.bits_read >= bmp.bits_to_read
    /\ "BITMAP" \in DOMAIN Top.items

\* C4: a key of a record's items is stored at most once: a repeated property
\* key or a second BITMAP block raises the duplicate-key error, and no step
\* changes or removes the value a record holds under a key.
C4_NoDuplicateKey ==
    [][/\ (RepeatedProperty \/ RepeatedBitmap) =>
              (pc' = "error" /\ err' = "SyntaxError: Repeated")
       /\ \A i \in 1..Len(stack) :
              i <= Len(stack') =>
                  \A k \in DOMAIN stack[i].items :
                      /\ k \in DOMAIN stack'[i].items
                      /\ stack'[i].items[k] = stack[i].items[k]]_vars

\* C4 witness: the second BITMAP block of a child record raised the
\* duplicate-key error, the child holding a key that its parent holds too.
C4_Witness ==
    /\ pc = "error"
    /\ err = "SyntaxError: Repeated"
    /\ Len(stack) = 2
    /\ "BITMAP" \in DOMAIN stack[2].items
    /\ "BBX" \in DOMAIN stack[1].items
    /\ "BBX" \in DOMAIN stack[2].items

\* the hex text of the row the bitmap decoder is about to fetch
NextRow == RemoveSpace(nextline(stream, pos).line)

\* C5: a bitmap row with an odd number of characters, or with a character
\* that is not a hex digit, makes BdfBitmap.parse_from fail.
C5_MalformedRowFails ==
    [][(/\ pc = "bitmap"
        /\ bmp.bits_read < bmp.bits_to_read
        /\ \/ Len(NextRow) % 2 = 1
           \/ \E i \in 1..Len(NextRow) : CharAt(NextRow, i) \notin HexDigits)
       => pc' = "error"]_vars

\* C6: a record returned by parse_from called with an expected kind is of
\* that kind.
C6_ExpectedKindExact ==
    (pc = "parsed" /\ expected # "") => record.type = expected

\* the codes render_char is asked for
QueryCodes == CodeChoices

HasGlyph(code) == [int |-> code] \in DOMAIN font.chars

Glyph(code) == font.chars[[int |-> code]]

GlyphBox(code) == Glyph(code).items["BBX"].prop

\* the glyph carries a BBX of four components and a BITMAP block
CompleteGlyph(code) ==
    /\ "BBX" \in DOMAIN Glyph(code).items
    /\ Len(GlyphBox(code)) = 4
    /\ "BITMAP" \in DOMAIN Glyph(code).items

WrongBBX == [error |-> "ValueError: wrong BBX"]

GlyphData(code) == [data |-> Glyph(code).items["BITMAP"].bitmap.data]

InGlyphLoop == tool # "" /\ "ich" \in DOMAIN emit

\* the glyph table the running emitter looks codes up in
GlyphTable == IF tool = "fontconv" THEN font.chars ELSE emit.font_chars

FontBox == record.items["FONTBOUNDINGBOX"].prop

\* C8: for a code of the range without a glyph, the emitter writes exactly
\* row_width(bbox.w) / 8 * bbox.h zero bytes and a warning that names the
\* code, and it does not abort on that code.
C8_MissingGlyphZeroFilled ==
    InGlyphLoop =>
        /\ \A i \in 1..Len(sink.glyphs) :
              [int |-> sink.glyphs[i].code] \notin DOMAIN GlyphTable =>
                  /\ Len(sink.glyphs[i].bytes) =
                         (row_width(FontBox[1].int) \div 8) * FontBox[2].int
                  /\ \A j \in 1..Len(sink.glyphs[i].bytes) : sink.glyphs[i].bytes[j] = 0
                  /\ \E j \in 1..Len(stderr) : stderr[j] = sink.glyphs[i].code
        /\ pc = "error" => [int |-> emit.ich] \in DOMAIN GlyphTable

\* C9: no line of bytes written by emit_mono_font_header is longer than
\* MAX_H_COL columns.
C9_LinesWithinBudget ==
    (tool = "fontconv") =>
        \A i \in 1..Len(sink.glyphs) :
            \A j \in 1..Len(sink.glyphs[i].rows) :
                RowLen(sink.glyphs[i].rows[j]) <= MAX_H_COL

\* C10: the line nextline returned is the trimmed text of the line it read
\* last, is empty only at the end of the stream, and never begins with
\* COMMENT.
C10_NextlineSkipsComments ==
    (pc = "loop") =>
        /\ ~StartsWith(line, "COMMENT")
        /\ line = "" => pos > Len(stream)
        /\ line # "" => line = Strip(stream[pos - 1])

---------------------------------------------------------------------------
(* BdfProperty: the tokens of a value text *)

\* s is a decimal integer with an optional minus sign
SignedDecimal(s) ==
    LET body == IF Len(s) > 0 /\ CharAt(s, 1) = "-" THEN From(s, 2) ELSE s
    IN  /\ Len(body) > 0
        /\ \A i \in 1..Len(body) : CharAt(body, i) \in Digits

\* the last position of the longest integer that starts at position i, or 0
IntegerEnd(text, i) ==
    LET ends == {j \in i..Len(text) : SignedDecimal(SubSeq(text, i, j))}
    IN  IF ends = {} THEN 0 ELSE CHOOSE j \in ends : \A k \in ends : k <= j

\* the position of the quote that closes the one at position i, or 0
QuoteEnd(text, i) ==
    LET ends == {j \in (i + 1)..Len(text) : CharAt(text, j) = "\""}
    IN  IF CharAt(text, i) # "\"" \/ ends = {} THEN 0
        ELSE CHOOSE j \in ends : \A k \in ends : j <= k

\* the number a decimal integer with an optional minus sign stands for
RECURSIVE Magnitude(_, _)
Magnitude(digits, acc) ==
    IF Len(digits) = 0 THEN acc
    ELSE Magnitude(Tail(digits), 10 * acc + DigitVal[CharAt(digits, 1)])

IntegerValue(s) ==
    IF CharAt(s, 1) = "-" THEN 0 - Magnitude(From(s, 2), 0) ELSE Magnitude(s, 0)

\* the elements the text holds from position i on, in order of appearance:
\* an integer, else a quoted string, else the rest of the text
RECURSIVE ExpectedTokens(_, _)
ExpectedTokens(text, i) ==
    IF i > Len(text) THEN <<>>
    ELSE IF CharAt(text, i) \in Whitespace THEN ExpectedTokens(text, i + 1)
    ELSE IF IntegerEnd(text, i) > 0
    THEN <<[int |-> IntegerValue(SubSeq(text, i, IntegerEnd(text, i)))]>>
         \o ExpectedTokens(text, IntegerEnd(text, i) + 1)
    ELSE IF QuoteEnd(text, i) > 0
    THEN <<[str |-> SubSeq(text, i + 1, QuoteEnd(text, i) - 1)]>>
         \o ExpectedTokens(text, QuoteEnd(text, i) + 1)
    ELSE <<[str |-> From(text, i)]>>

\* the line of the record loop is a property line KEY VALUE...
AtPropertyLine ==
    /\ InLoop
    /\ ~StartsWith(line, "START")
    /\ ~StartsWith(line, "BITMAP")
    /\ Len(Split1(line)) = 2

---------------------------------------------------------------------------
(* BdfFont: CHAR children with the same ENCODING *)

\* the positions of the CHAR children of the parsed record
Chars == {i \in 1..Len(record.children) : record.children[i].type = "CHAR"}

Encoding(i) == record.children[i].items["ENCODING"].prop[1]

\* two CHAR children of the parsed record carry the same ENCODING
DuplicateEncoding ==
    \E i \in Chars, j \in Chars : i < j /\ Encoding(i) = Encoding(j)

\* the parsed record has what BdfFont needs apart from distinct encodings
FontRecord ==
    /\ record.type = "FONT"
    /\ Len(record.children) > 0
    /\ record.children[1].type = "PROPERTIES"
    /\ "FONTBOUNDINGBOX" \in DOMAIN record.items
    /\ Len(record.items["FONTBOUNDINGBOX"].prop) = 4
    /\ \A i \in Chars : "ENCODING" \in DOMAIN record.children[i].items

\* child i is the last CHAR child with its encoding
LastOfItsCode(i) == \A j \in Chars : j > i => Encoding(j) # Encoding(i)

\* child i has a BBX of the font's width and height, and a BITMAP
Renderable(i) ==
    /\ "BBX" \in DOMAIN record.children[i].items
    /\ Len(record.children[i].items["BBX"].prop) = 4
    /\ record.children[i].items["BBX"].prop[1] = font.bbox.w
    /\ record.children[i].items["BBX"].prop[2] = font.bbox.h
    /\ "BITMAP" \in DOMAIN record.children[i].items

\* C12: a FONT record with CHAR children of the same ENCODING makes a
\* BdfFont, its glyph table maps every code to the last CHAR child that
\* carries it, and render_char answers with the bitmap of that child: the
\* bytes fontconv writes for the code are those of the last child.
C12_LastEncodingWins ==
    [][/\ (pc = "parsed" /\ tool' = "fontconv" /\ FontRecord /\ DuplicateEncoding) =>
              pc' = "font"
       /\ (pc' = "font") =>
              \A i \in Chars :
                  LastOfItsCode(i) =>
                      /\ Encoding(i) \in DOMAIN font'.chars
                      /\ font'.chars[Encoding(i)] = record.children[i]
       /\ (pc = "emit" /\ Len(sink'.glyphs) > Len(sink.glyphs)) =>
              \A i \in Chars :
                  (/\ LastOfItsCode(i)
                   /\ Encoding(i) = [int |-> emit.ich]
                   /\ Renderable(i)
                   /\ record.children[i].items["BITMAP"].bitmap.data # <<>>) =>
                      sink'.glyphs[Len(sink'.glyphs)].bytes =
                          record.children[i].items["BITMAP"].bitmap.data]_vars

\* the font is built from two CHAR children with code 65 and different
\* bitmaps, and the bytes written for 65 are those of the second
C12_Witness ==
    /\ tool = "fontconv"
    /\ pc = "done"
    /\ DuplicateEncoding
    /\ \E i \in Chars, j \in Chars, g \in 1..Len(sink.glyphs) :
          /\ i < j
          /\ Encoding(i) = [int |-> 65]
          /\ Encoding(j) = [int |-> 65]
          /\ LastOfItsCode(j)
          /\ Renderable(i)
          /\ Renderable(j)
          /\ record.children[i].items["BITMAP"] # record.children[j].items["BITMAP"]
          /\ sink.glyphs[g].code = 65
          /\ sink.glyphs[g].bytes = record.children[j].items["BITMAP"].bitmap.data

---------------------------------------------------------------------------
(* emit_mono_font_header: the (MISSING) marker *)

\* the codes emit_mono_font_header has warned about
Warned == {stderr[j] : j \in 1..Len(stderr)}

\* C13: emit_mono_font_header marks a glyph (MISSING) exactly when
\* render_char returned absent for its code, that is when the code is not
\* in the glyph table, and exactly then it warns about the code; a glyph of
\* the font whose bytes are all zero is not marked.
C13_MarkedIffAbsent ==
    (tool = "fontconv") =>
        \A g \in 1..Len(sink.glyphs) :
            /\ sink.glyphs[g].marked <=> ~HasGlyph(sink.glyphs[g].code)
            /\ sink.glyphs[g].marked <=> sink.glyphs[g].code \in Warned

---------------------------------------------------------------------------
(* parse_from: termination *)

\* parse_from has returned its record or raised
ParseEnded == pc \notin {"start", "loop", "bitmap"}

\* C14: on every stream parse_from, with its nested calls and the bitmap
\* decoding, comes to an end: it returns a record or raises, also when the
\* stream ends inside a BITMAP block that still needs bytes.
C14_ParseTerminates == <>ParseEnded

---------------------------------------------------------------------------
(* emit_mono_font_header: the declared and the written array length *)

\* the number of byte literals written for the first n glyphs
RECURSIVE BytesWritten(_)
BytesWritten(n) ==
    IF n = 0 THEN 0 ELSE BytesWritten(n - 1) + Len(sink.glyphs[n].bytes)

\* C15: when emit_mono_font_header has completed, the number of byte
\* literals it wrote equals the array length it declared, that length is
\* row_width(bbox.w) / 8 * bbox.h for each code of the range and is not
\* negative, and every glyph written has row_width(bbox.w) / 8 * bbox.h bytes.
C15_DeclaredLengthWritten ==
    (tool = "fontconv" /\ pc = "done") =>
        LET per_glyph == (row_width(font.bbox.w.int) \div 8) * font.bbox.h.int
        IN  /\ sink.size = [int |-> per_glyph * (emit.last_ch - emit.first_ch + 1)]
            /\ sink.size.int >= 0
            /\ BytesWritten(Len(sink.glyphs)) = sink.size.int
            /\ \A g \in 1..Len(sink.glyphs) : Len(sink.glyphs[g].bytes) = per_glyph

====
